---- MODULE Spec2Model ----
(***************************************************************************)
(* Model of the badminton-club play page (src/badminton_club/pages/play.py)*)
(* and the pieces of auth.py / app.py / database it calls.                 *)
(*                                                                         *)
(* The committed content of the play_recommendations table is the bag      *)
(* `table`.  Each Dash callback request runs in its own scoped session     *)
(* (database/__init__.py:21-24, autocommit=False): the bulk DELETE is one  *)
(* SQL statement, the pending INSERTs are flushed by db_session.commit().  *)
(* A request is therefore split at the statement boundary, which is where  *)
(* two requests interleave; PostgreSQL READ COMMITTED (the engine of       *)
(* DATABASE_URL, database/__init__.py:12-15) decides what each statement   *)
(* sees: committed rows only, row locks on the rows a DELETE removed, and  *)
(* a blocked DELETE that skips the rows the lock holder deleted.           *)
(***************************************************************************)
EXTENDS Integers, FiniteSets, Sequences, Bags, TLC

VARIABLES table, session, sel_date, edit_id, req, resp,
          cal_start, rendered, pending, result,
          users, locations, home_layout, login_alert

vars == <<table, session, sel_date, edit_id, req, resp,
          cal_start, rendered, pending, result,
          users, locations, home_layout, login_alert>>

\* What the calendar callbacks and the query functions write: the
\* calendar-start-date store, the rendered calendar grid and entry list,
\* the callbacks a click has triggered that have not run yet, and the
\* value the last query function returned.
view == <<cal_start, rendered, pending, result>>

\* The rest of the site: the users and locations tables, the layout of the
\* home page, built when pages/home.py is imported, and the login-alert the
\* login and registration callbacks write.
site == <<users, locations, home_layout, login_alert>>

(* ------------------------------ domains ------------------------------- *)

\* Browser tabs, each with its own cookie session and dcc.Store values.
Clients == {"c1", "c2"}

\* A two-label subset of TIME_SLOTS.
TIME_SLOTS == {"07:00-08:00", "08:00-09:00"}

\* Rows of the locations table (ids).
LocationIds == {1, 2}

\* A location id that references no row of locations.
BadLocationId == 99

\* Calendar dates shown as day cards (day numbers).
Dates == {1, 2}

\* dcc.Store(id="selected-date", data=None)
NoDate == 0

\* Largest guest count a client submits in the model.
MaxGuests == 1

\* Rows of the users table.  password_hash holds Hash(password).
Hash(p) == <<"sha256", p>>

UserRows ==
    { [id |-> 1, username |-> "ann", password_hash |-> Hash("secret_a"), is_active |-> TRUE],
      [id |-> 2, username |-> "bob", password_hash |-> Hash("secret_b"), is_active |-> TRUE] }

NoUserId == 0

\* flask session after session.clear()
EmptySession == [authenticated |-> FALSE, username |-> ""]

(* ------------------------------ auth.py ------------------------------- *)

\* AuthManager.get_user_by_username: the active user rows of that name.
get_user_by_username(username) ==
    {u \in users : u.username = username /\ u.is_active}

\* AuthManager._verify_fallback_credentials with the default environment.
verify_fallback_credentials(username, password) ==
    username = "admin" /\ Hash(password) = Hash("password123")

\* AuthManager.verify_credentials
verify_credentials(username, password) ==
    IF username = "" \/ password = "" THEN FALSE
    ELSE LET found == get_user_by_username(username) IN
         IF found = {} THEN verify_fallback_credentials(username, password)
         ELSE \E u \in found : u.password_hash = Hash(password)

\* AuthManager.get_current_username ("" stands for None)
get_current_username(c) ==
    IF session[c].authenticated THEN session[c].username ELSE ""

\* play.get_user_id_by_username: NoUserId when no row matches or the
\* query raises (the storage fault "lookup").
get_user_id_by_username(username, fault) ==
    IF fault = "lookup" THEN NoUserId
    ELSE LET found == {u \in users : u.username = username} IN
         IF found = {} THEN NoUserId ELSE (CHOOSE u \in found : TRUE).id

(* --------------------------- the row store ---------------------------- *)

\* One PlayRecommendation row (models.py:105-117); the surrogate id and the
\* timestamps are left out: rows are never updated in place, so a row's
\* content identifies it for as long as it exists.
Row(u, l, d, s, g) ==
    [user_id |-> u, location_id |-> l, date |-> d, time_slot |-> s, num_guests |-> g]

\* The columns of uq_user_date_time_location
\* (UniqueKey_no_user: the constraint without its user_id column).
UniqueKey_no_user(r) == <<r.date, r.time_slot, r.location_id>>

UniqueKey(r) == <<r.user_id, r.date, r.time_slot, r.location_id>>

\* Bag B without every copy of the rows in R (Without_nothing: a DELETE
\* that removes no row).
Without_nothing(B, R) == B

Without(B, R) == [r \in (DOMAIN B) \ R |-> B[r]]

\* Number of stored rows (copies counted) among R, the rowcount of a DELETE
\* (RowCount_none: a rowcount that is not read).
RowCount_none(B, R) == 0

RowCount(B, R) == BagCardinality([r \in (DOMAIN B) \cap R |-> B[r]])

\* .filter(user_id == u, date == d) over the committed rows
\* (MatchingRows_any_user: the filter without its user_id condition).
MatchingRows_any_user(u, d) ==
    {r \in BagToSet(table) : r.date = d}

MatchingRows(u, d) ==
    {r \in BagToSet(table) : r.user_id = u /\ r.date = d}

\* int(num_guests) if num_guests else 0; the input is <<>> (None) or <<n>>.
int_or_zero(g) == IF g = <<>> THEN 0 ELSE g[1]

\* The rows save_recommendation adds: one per (time_slot, location_id) pair
\* (NewRows_one_location: the loops without the inner one).
NewRows_one_location(u, d, S, L, g) ==
    {Row(u, l, d, s, g) : s \in S, l \in {CHOOSE x \in L : TRUE}}

NewRows(u, d, S, L, g) == {Row(u, l, d, s, g) : s \in S, l \in L}

\* The committed table a reader sees right after a request's DELETE
\* statement ran with the rows `rows`: the session does not autocommit, so
\* the delete stays private to the transaction until commit().
AfterDeleteStmt_autocommit(rows) == Without(table, rows)

AfterDeleteStmt(rows) == table

\* uq_user_date_time_location: an INSERT of `new` is rejected when a row
\* visible to it already has the same key.
UniqueViolation_none(new, visible) == FALSE

UniqueViolation(new, visible) ==
    \E n \in new : \E r \in BagToSet(visible) : UniqueKey(n) = UniqueKey(r)

\* ForeignKey("locations.id"): every location_id references a row.
ForeignKeyViolation(L) == \E l \in L : l \notin locations

(* ------------------------ in-flight transactions ---------------------- *)

IdleReq ==
    [pc |-> "idle", op |-> "none", user_id |-> NoUserId, date |-> NoDate,
     time_slots |-> {}, location_ids |-> {}, num_guests |-> 0, delset |-> {}]

NoResp == [client |-> "", kind |-> "none", detail |-> "", deleted |-> 0]

\* What the callback that returned last returned, and to which client:
\* the alert (kind), the exception text it embeds (detail), and the
\* rowcount of the request's DELETE statement (deleted), which
\* delete_recommendation reports as its count and save_recommendation
\* does not report.  The count of a "Saved {count} entries" message is the
\* number of rows added, the size of NewRows.
Resp(c, kind, detail, deleted) ==
    [client |-> c, kind |-> kind, detail |-> detail, deleted |-> deleted]

\* Rows deleted by the uncommitted transaction of c: row-locked.
Locked(c) == IF req[c].pc = "deleted" THEN req[c].delset ELSE {}

LockedByOthers(c) == UNION {Locked(o) : o \in Clients \ {c}}

\* query.filter(user_id, date).delete(): the statement takes its snapshot of
\* the committed rows; it waits ("blocked") when one of them is locked by
\* another transaction, otherwise the rows are deleted inside the
\* transaction ("deleted").
DeleteStmt(c, op, u, d, S, L, g) ==
    LET snap == MatchingRows(u, d) IN
    [pc |-> IF snap \cap LockedByOthers(c) = {} THEN "deleted" ELSE "blocked",
     op |-> op, user_id |-> u, date |-> d, time_slots |-> S,
     location_ids |-> L, num_guests |-> g, delset |-> snap]

\* The requests after c's transaction committed the removal of `gone`: a
\* DELETE that waited on those rows finds them deleted and skips them.
AfterCommit(c, gone) ==
    [o \in Clients |->
        IF o = c THEN IdleReq
        ELSE IF req[o].pc = "blocked"
             THEN [req[o] EXCEPT !.delset = @ \ gone]
             ELSE req[o]]

(* ------------------------------- inputs ------------------------------- *)

\* Values a client can submit as State of the save callback.
SlotInputs == SUBSET TIME_SLOTS

LocationInputs == {{}, LocationIds, {BadLocationId}}

\* num-guests-input: None, or a number (0 is read like None).
GuestInputs == {<<>>} \cup {<<n>> : n \in 1..MaxGuests}

UsernameInputs == {"ann", "bob", "admin"}

PasswordInputs == {"secret_a", "secret_b", "password123"}

\* Where the storage fails during a request: nowhere, in the user lookup,
\* in the DELETE statement, or in commit().
BeginFaults == {"none", "lookup", "statement"}

CommitFaults == {"none", "commit"}

Faults == BeginFaults \cup CommitFaults

(* --------------------------- handler bodies --------------------------- *)

Returned(kind, detail) == [returns |-> TRUE, kind |-> kind, detail |-> detail, req |-> IdleReq]

Started(r) == [returns |-> FALSE, kind |-> "", detail |-> "", req |-> r]

\* save_recommendation from its first line to the DELETE statement: the
\* early returns in the order of the code, then the statement.
\* rec_id (edit_id[c]) is received and never read.
\* (SaveEntry_unchecked: the same without the test of lines 563-564.)
SaveEntry_unchecked(c, S, L, g, fault) ==
    LET username == get_current_username(c)
        user_id == get_user_id_by_username(username, fault)
    IN
    IF sel_date[c] = NoDate THEN Returned("no_update", "")
    ELSE IF username = "" THEN Returned("danger_login", "")
    ELSE IF user_id = NoUserId THEN Returned("danger_user_not_found", "")
    ELSE IF fault = "statement" THEN Returned("danger_error", "OperationalError")
    ELSE Started(DeleteStmt(c, "save", user_id, sel_date[c], S, L, int_or_zero(g)))

SaveEntry(c, S, L, g, fault) ==
    LET username == get_current_username(c)
        user_id == get_user_id_by_username(username, fault)
    IN
    IF sel_date[c] = NoDate THEN Returned("no_update", "")
    ELSE IF S = {} \/ L = {} THEN Returned("warning_select", "")
    ELSE IF username = "" THEN Returned("danger_login", "")
    ELSE IF user_id = NoUserId THEN Returned("danger_user_not_found", "")
    ELSE IF fault = "statement" THEN Returned("danger_error", "OperationalError")
    ELSE Started(DeleteStmt(c, "save", user_id, sel_date[c], S, L, int_or_zero(g)))

\* delete_recommendation from its first line to the DELETE statement.
DeleteEntry(c, fault) ==
    LET username == get_current_username(c)
        user_id == get_user_id_by_username(username, fault)
    IN
    IF sel_date[c] = NoDate THEN Returned("no_update", "")
    ELSE IF username = "" THEN Returned("danger_login", "")
    ELSE IF user_id = NoUserId THEN Returned("danger_user_not_found", "")
    ELSE IF fault = "statement" THEN Returned("danger_delete_error", "OperationalError")
    ELSE Started(DeleteStmt(c, "delete", user_id, sel_date[c], {}, {}, 0))

\* The exceptions commit() can raise for the pending INSERTs of r.
FlushErrors(r, visible, fault) ==
    LET new == NewRows(r.user_id, r.date, r.time_slots, r.location_ids, r.num_guests) IN
    (IF fault = "commit" THEN {"OperationalError"} ELSE {})
    \cup (IF ForeignKeyViolation(r.location_ids) THEN {"IntegrityError:foreign_key"} ELSE {})
    \cup (IF UniqueViolation(new, visible) THEN {"IntegrityError:unique"} ELSE {})

\* save_recommendation from the add() loop to the return, for the
\* transaction r over the committed table tbl: commit() flushes the INSERTs
\* and commits; any exception rolls the transaction back.
SaveFlush(c, r, tbl, fault) ==
    LET new == NewRows(r.user_id, r.date, r.time_slots, r.location_ids, r.num_guests)
        visible == Without(tbl, r.delset)
        errors == FlushErrors(r, visible, fault)
    IN
    IF errors # {}
    THEN /\ \E e \in errors : resp' = Resp(c, "danger_error", e, Cardinality(r.delset))
         /\ req' = [req EXCEPT ![c] = IdleReq]
         /\ table' = tbl
    ELSE /\ table' = visible (+) SetToBag(new)
         /\ resp' = Resp(c, "success_saved", "", Cardinality(r.delset))
         /\ req' = AfterCommit(c, r.delset)

\* delete_recommendation: commit() and the return, or rollback on failure.
DeleteFlush(c, r, tbl, fault) ==
    IF fault = "commit"
    THEN /\ resp' = Resp(c, "danger_delete_error", "OperationalError", Cardinality(r.delset))
         /\ req' = [req EXCEPT ![c] = IdleReq]
         /\ table' = tbl
    ELSE /\ table' = Without(tbl, r.delset)
         /\ resp' = Resp(c, "success_deleted", "", RowCount(tbl, r.delset))
         /\ req' = AfterCommit(c, r.delset)

\* A callback returned without leaving a transaction open.
Return(c, e) ==
    /\ resp' = Resp(c, e.kind, e.detail, 0)
    /\ req' = [req EXCEPT ![c] = IdleReq]
    /\ table' = table

(* ----------------------------- home page ------------------------------ *)

\* func.max over a non-empty set of integers.
Max(S) == CHOOSE x \in S : \A y \in S : y <= x

\* The elements of the finite set S as a sequence in ascending order of
\* key, a function on S with distinct integer values.
RECURSIVE SortedBy(_, _)
SortedBy(S, key) ==
    IF S = {} THEN <<>>
    ELSE LET x == CHOOSE y \in S : \A z \in S : key[y] <= key[z]
         IN <<x>> \o SortedBy(S \ {x}, key)

\* The order of the usernames under the collation of the database.
Collation == <<"admin", "ann", "bob", "cat", "dave">>

CollationRank(username) == CHOOSE i \in 1..Len(Collation) : Collation[i] = username

\* end_date = today + timedelta(days=14)
\* (UpcomingEnd_one_week: a horizon of 7 days).
UpcomingEnd_one_week(today) == today + 7

UpcomingEnd(today) == today + 14

\* get_upcoming_potential_sessions over the committed rows tbl and the
\* users table usrs: the rows of [today, end_date] joined with their user,
\* grouped by (date, username) with max(num_guests), ordered by date and
\* username; then collected per date in that order and sorted by date.
\* The empty list when the query raises.
get_upcoming_potential_sessions(tbl, usrs, today, fault) ==
    IF fault # "none" THEN <<>>
    ELSE
    LET end_date == UpcomingEnd(today)
        joined == UNION {{[date |-> r.date, username |-> u.username, num_guests |-> r.num_guests] :
                             u \in {x \in usrs : x.id = r.user_id}} :
                          r \in {x \in DOMAIN tbl : x.date >= today /\ x.date <= end_date}}
        keys == {<<j.date, j.username>> : j \in joined}
        groups == {[date |-> k[1], username |-> k[2],
                    guests |-> Max({j.num_guests : j \in {x \in joined :
                                        x.date = k[1] /\ x.username = k[2]}})] : k \in keys}
        results == SortedBy(groups, [g \in groups |->
                               g.date * (Len(Collation) + 1) + CollationRank(g.username)])
        dates == {g.date : g \in groups}
        by_date == [d \in dates |->
                      LET of_d == SelectSeq(results, LAMBDA g : g.date = d)
                      IN [i \in 1..Len(of_d) |-> <<of_d[i].username, of_d[i].guests>>]]
        sorted_dates == SortedBy(dates, [d \in dates |-> d])
    IN [i \in 1..Len(sorted_dates) |-> <<sorted_dates[i], by_date[sorted_dates[i]]>>]

\* format_members: "username (+guests)" for a positive guest count, the
\* username alone otherwise.
format_members(members) ==
    [i \in 1..Len(members) |->
        IF members[i][2] > 0 THEN <<members[i][1], "+", members[i][2]>>
        ELSE <<members[i][1]>>]

\* build_upcoming_section for the list get_upcoming_potential_sessions
\* returned: the info alert for an empty list, one card per date otherwise.
build_upcoming_section(sessions) ==
    IF sessions = <<>> THEN [alert |-> TRUE, cards |-> <<>>]
    ELSE [alert |-> FALSE,
          cards |-> [i \in 1..Len(sessions) |->
                        <<sessions[i][1], format_members(sessions[i][2])>>]]

\* The day the server process imported pages/home.py.
ImportDay == 1

\* No login or registration callback has answered.
NoAlert == [client |-> "", kind |-> "none"]

\* The tables seeded with their rows, the home page layout built at import
\* from the rows stored then, no alert shown.
InitSite ==
    /\ users = UserRows
    /\ locations = LocationIds
    /\ home_layout = build_upcoming_section(
                        get_upcoming_potential_sessions(table, users, ImportDay, "none"))
    /\ login_alert = NoAlert

(* ------------------------------ actions ------------------------------- *)

\* No calendar callback and no query function has run.
NoRendered == [start |-> 0, end |-> 0, summaries |-> <<>>, entries |-> <<>>]

NoResult == [fn |-> "none", args |-> <<>>, fault |-> "none", value |-> <<>>]

\* No click is being served.
NoClick == [click |-> "none", todo |-> {}, time_slots |-> {}, location_ids |-> {},
            num_guests |-> <<>>, committed |-> FALSE]

InitView ==
    /\ cal_start = [c \in Clients |-> 0]
    /\ rendered = [c \in Clients |-> NoRendered]
    /\ pending = [c \in Clients |-> NoClick]
    /\ result = NoResult

Init ==
    /\ table = EmptyBag
    /\ session = [c \in Clients |-> EmptySession]
    /\ sel_date = [c \in Clients |-> NoDate]
    /\ edit_id = [c \in Clients |-> {}]
    /\ req = [c \in Clients |-> IdleReq]
    /\ resp = NoResp
    /\ InitView
    /\ InitSite

\* app.handle_login: a session is established only for verified credentials.
handle_login(c, username, password) ==
    /\ username # "" /\ password # ""
    /\ verify_credentials(username, password)
    /\ session' = [session EXCEPT ![c] = [authenticated |-> TRUE, username |-> username]]
    /\ UNCHANGED <<table, sel_date, edit_id, req, resp>>
    /\ UNCHANGED view
    /\ UNCHANGED site

\* app.handle_logout: session.clear()
handle_logout(c) ==
    /\ session[c] # EmptySession
    /\ session' = [session EXCEPT ![c] = EmptySession]
    /\ UNCHANGED <<table, sel_date, edit_id, req, resp>>
    /\ UNCHANGED view
    /\ UNCHANGED site

\* toggle_modal, day-card branch: opens the modal for the clicked date.
toggle_modal_day(c, d) ==
    /\ sel_date' = [sel_date EXCEPT ![c] = d]
    /\ edit_id' = [edit_id EXCEPT ![c] = {}]
    /\ UNCHANGED <<table, session, req, resp>>
    /\ UNCHANGED view
    /\ UNCHANGED site

\* toggle_modal, edit-btn branch: looks the row up by the id the client
\* sends, without comparing its owner to the session's user.  The stored
\* id is opaque; edit_id keeps the owner and date of the row it names.
toggle_modal_edit(c, rec) ==
    /\ rec \in BagToSet(table)
    /\ sel_date' = [sel_date EXCEPT ![c] = rec.date]
    /\ edit_id' = [edit_id EXCEPT ![c] = {[user_id |-> rec.user_id, date |-> rec.date]}]
    /\ UNCHANGED <<table, session, req, resp>>
    /\ UNCHANGED view
    /\ UNCHANGED site

\* toggle_modal, cancel/save/delete branch: closes the modal, keeps the
\* selected date and clears the id under edit.  For a save or delete click
\* it is dispatched together with the mutating callback, which received
\* its State values at the click.
toggle_modal_close(c) ==
    /\ edit_id[c] # {}
    /\ edit_id' = [edit_id EXCEPT ![c] = {}]
    /\ UNCHANGED <<table, session, sel_date, req, resp>>
    /\ UNCHANGED view
    /\ UNCHANGED site

\* save_recommendation, first step of a request that interleaves with
\* others: up to and including the DELETE statement.
save_recommendation(c, S, L, g, fault) ==
    /\ req[c].pc = "idle"
    /\ LET e == SaveEntry(c, S, L, g, fault) IN
       IF e.returns THEN Return(c, e)
       ELSE /\ req' = [req EXCEPT ![c] = e.req]
            /\ table' = AfterDeleteStmt(e.req.delset)
            /\ resp' = resp
    /\ UNCHANGED <<session, sel_date, edit_id>>
    /\ UNCHANGED view
    /\ UNCHANGED site

\* A DELETE that waited for a row lock goes on once the lock holder has
\* committed or rolled back.
delete_stmt_resume(c) ==
    /\ req[c].pc = "blocked"
    /\ req[c].delset \cap LockedByOthers(c) = {}
    /\ req' = [req EXCEPT ![c].pc = "deleted"]
    /\ UNCHANGED <<table, session, sel_date, edit_id, resp>>
    /\ UNCHANGED view
    /\ UNCHANGED site

\* save_recommendation, second step: the add() loop, commit(), return.
save_commit(c, fault) ==
    /\ req[c].pc = "deleted" /\ req[c].op = "save"
    /\ SaveFlush(c, req[c], table, fault)
    /\ UNCHANGED <<session, sel_date, edit_id>>
    /\ UNCHANGED view
    /\ UNCHANGED site

\* delete_recommendation, first step: up to and including the DELETE.
delete_recommendation(c, fault) ==
    /\ req[c].pc = "idle"
    /\ LET e == DeleteEntry(c, fault) IN
       IF e.returns THEN Return(c, e)
       ELSE /\ req' = [req EXCEPT ![c] = e.req]
            /\ table' = AfterDeleteStmt(e.req.delset)
            /\ resp' = resp
    /\ UNCHANGED <<session, sel_date, edit_id>>
    /\ UNCHANGED view
    /\ UNCHANGED site

\* delete_recommendation, second step: commit() and the return.
delete_commit(c, fault) ==
    /\ req[c].pc = "deleted" /\ req[c].op = "delete"
    /\ DeleteFlush(c, req[c], table, fault)
    /\ UNCHANGED <<session, sel_date, edit_id>>
    /\ UNCHANGED view
    /\ UNCHANGED site

\* save_recommendation run from call to return with no other request in
\* between.
save_recommendation_whole(c, S, L, g, fault) ==
    /\ \A o \in Clients : req[o].pc = "idle"
    /\ LET e == SaveEntry(c, S, L, g, fault) IN
       IF e.returns THEN Return(c, e)
       ELSE SaveFlush(c, e.req, AfterDeleteStmt(e.req.delset), fault)
    /\ UNCHANGED <<session, sel_date, edit_id>>
    /\ UNCHANGED view
    /\ UNCHANGED site

\* delete_recommendation run from call to return with no other request in
\* between.
delete_recommendation_whole(c, fault) ==
    /\ \A o \in Clients : req[o].pc = "idle"
    /\ LET e == DeleteEntry(c, fault) IN
       IF e.returns THEN Return(c, e)
       ELSE DeleteFlush(c, e.req, AfterDeleteStmt(e.req.delset), fault)
    /\ UNCHANGED <<session, sel_date, edit_id>>
    /\ UNCHANGED view
    /\ UNCHANGED site

(* --------------------------- specifications --------------------------- *)

\* Sessions a browser holds after a successful handle_login.
LoggedIn == {[authenticated |-> TRUE, username |-> u.username] : u \in UserRows}

\* Two browsers with established sessions issuing requests that interleave
\* at the SQL statement boundaries.
InitConcurrent ==
    /\ table = EmptyBag
    /\ session \in [Clients -> LoggedIn]
    /\ session["c1"].username = "ann"
    /\ sel_date = [c \in Clients |-> NoDate]
    /\ edit_id = [c \in Clients |-> {}]
    /\ req = [c \in Clients |-> IdleReq]
    /\ resp = NoResp
    /\ InitView
    /\ InitSite

ConcDates == {1}

ConcLocationInputs == {{1}}

Next ==
    \/ \E c \in Clients, d \in ConcDates : toggle_modal_day(c, d)
    \/ \E c \in Clients, S \in SlotInputs, L \in ConcLocationInputs, g \in GuestInputs,
          fault \in BeginFaults : save_recommendation(c, S, L, g, fault)
    \/ \E c \in Clients : delete_stmt_resume(c)
    \/ \E c \in Clients, fault \in CommitFaults : save_commit(c, fault)
    \/ \E c \in Clients, fault \in BeginFaults : delete_recommendation(c, fault)
    \/ \E c \in Clients, fault \in CommitFaults : delete_commit(c, fault)

Spec == InitConcurrent /\ [][Next]_vars

\* One browser: every callback runs from call to return.
SeqClients == {"c1"}

SeqDates == {1}

\* Storage faults during a save are explored for the step where they
\* matter, commit(); the delete callback is run under every fault.
SeqSaveFaults == {"none", "commit"}

NextSeq ==
    \/ \E c \in SeqClients, u \in UsernameInputs, p \in PasswordInputs : handle_login(c, u, p)
    \/ \E c \in SeqClients : handle_logout(c)
    \/ \E c \in SeqClients, d \in SeqDates : toggle_modal_day(c, d)
    \/ \E c \in SeqClients, S \in SlotInputs, L \in LocationInputs, g \in GuestInputs,
          fault \in SeqSaveFaults : save_recommendation_whole(c, S, L, g, fault)
    \/ \E c \in SeqClients, fault \in Faults : delete_recommendation_whole(c, fault)

SpecSeq == Init /\ [][NextSeq]_vars

\* One browser whose user also opens the modal through edit buttons; the
\* stored ids outlive a change of the session's user.
EditSlotInputs == {{}, {"07:00-08:00"}, TIME_SLOTS}

EditLocationInputs == {{1}}

NextEdit ==
    \/ \E c \in SeqClients, u \in UsernameInputs, p \in PasswordInputs : handle_login(c, u, p)
    \/ \E c \in SeqClients : handle_logout(c)
    \/ \E c \in SeqClients, d \in SeqDates : toggle_modal_day(c, d)
    \/ \E c \in SeqClients, rec \in BagToSet(table) : toggle_modal_edit(c, rec)
    \/ \E c \in SeqClients : toggle_modal_close(c)
    \/ \E c \in SeqClients, S \in EditSlotInputs, L \in EditLocationInputs, g \in GuestInputs,
          fault \in Faults : save_recommendation_whole(c, S, L, g, fault)
    \/ \E c \in SeqClients, fault \in Faults : delete_recommendation_whole(c, fault)

SpecEdit == Init /\ [][NextEdit]_vars

(* ------------------------------- claims ------------------------------- *)

\* The id of the user the session of c names (NoUserId when none).
ActingUserId(c) == get_user_id_by_username(get_current_username(c), "none")

\* The stored rows of user u on date d, with their multiplicities.
StoredFor(tbl, u, d) ==
    [r \in {x \in DOMAIN tbl : x.user_id = u /\ x.date = d} |-> tbl[r]]

\* One row per (time slot, location) pair, each once, all with g guests.
ProductBag(u, d, S, L, g) ==
    [r \in {[user_id |-> u, location_id |-> l, date |-> d, time_slot |-> s,
             num_guests |-> g] : s \in S, l \in L} |-> 1]

\* In C1 and C2 a step is the successful save_recommendation(c, S, L, g)
\* when save_recommendation_whole holds of it; the success response, the
\* unchanged session and the passed early returns are consequences of that
\* and are stated first.

\* C1: after a successful save_recommendation by user u for date d with
\* time slots S, locations L and g guests, the stored rows of (u, d) are
\* exactly one row per pair of S x L, every one with num_guests = g,
\* whatever rows (u, d) had before.
C1_SaveStoresProduct ==
    [][(resp'.kind = "success_saved" /\ session' = session) =>
       \A c \in SeqClients, S \in SlotInputs, L \in LocationInputs, g \in GuestInputs :
         (/\ ~SaveEntry(c, S, L, g, "none").returns
          /\ save_recommendation_whole(c, S, L, g, "none"))
         => StoredFor(table', ActingUserId(c), sel_date[c])
               = ProductBag(ActingUserId(c), sel_date[c], S, L, int_or_zero(g))]_vars

\* C1 witness: a save of 2 slots x 2 locations with 1 guest returned
\* success and the user has exactly those 4 rows.
C1_Witness ==
    /\ resp.kind = "success_saved"
    /\ \E u \in {1, 2}, d \in Dates :
          StoredFor(table, u, d) = ProductBag(u, d, TIME_SLOTS, LocationIds, 1)

\* C2: a second successful save_recommendation for a (u, d) that already
\* has rows from an earlier call leaves exactly the second call's rows: no
\* earlier row outside the second product survives, none is stored twice.
C2_SecondSaveReplaces ==
    [][(resp'.kind = "success_saved" /\ session' = session) =>
       \A c \in SeqClients, S \in SlotInputs, L \in LocationInputs, g \in GuestInputs :
         LET u == ActingUserId(c)
             d == sel_date[c]
             before == {r \in DOMAIN table : r.user_id = u /\ r.date = d}
             after == {r \in DOMAIN table' : r.user_id = u /\ r.date = d}
         IN
         (/\ before # {}
          /\ ~SaveEntry(c, S, L, g, "none").returns
          /\ save_recommendation_whole(c, S, L, g, "none"))
         => /\ \A r \in before :
                  (r.time_slot \notin S \/ r.location_id \notin L
                     \/ r.num_guests # int_or_zero(g)) => r \notin after
            /\ \A r \in after :
                  /\ table'[r] = 1
                  /\ r.time_slot \in S /\ r.location_id \in L
                  /\ r.num_guests = int_or_zero(g)
            /\ Cardinality(after) = Cardinality(S) * Cardinality(L)
            /\ resp'.deleted = Cardinality(before)]_vars

\* C2 witness: a save that replaced 4 earlier rows of the user by 2 rows.
C2_Witness ==
    /\ resp.kind = "success_saved" /\ resp.deleted = 4
    /\ \E u \in {1, 2}, d \in Dates :
          /\ u = ActingUserId(resp.client)
          /\ BagCardinality(StoredFor(table, u, d)) = 2

\* C3: in every reachable state all rows of one user for one date carry
\* the same num_guests.
C3_GuestsUniform ==
    \A r1 \in DOMAIN table, r2 \in DOMAIN table :
        (r1.user_id = r2.user_id /\ r1.date = r2.date) => r1.num_guests = r2.num_guests

\* C4: in every reachable state no two stored rows share
\* (user_id, date, time_slot, location_id).
C4_UniqueTuple ==
    /\ \A r \in DOMAIN table : table[r] = 1
    /\ \A r1 \in DOMAIN table, r2 \in DOMAIN table :
          (/\ r1.user_id = r2.user_id /\ r1.date = r2.date
           /\ r1.time_slot = r2.time_slot /\ r1.location_id = r2.location_id)
          => r1 = r2

\* C4 witness: an INSERT was rejected by the unique constraint while the
\* conflicting row is stored.
C4_Witness ==
    /\ resp.kind = "danger_error" /\ resp.detail = "IntegrityError:unique"
    /\ table # EmptyBag

\* C5: the DELETE and the INSERTs of a save are one transaction: while it
\* is open the rows it deleted are still in the committed table, the
\* committed table changes only in the step of a successful commit, which
\* for a save stores every new row together with the removal, and a
\* request that fails leaves the committed table as it was.
C5_AtomicReplace ==
    [][/\ \A c \in Clients :
            req[c].pc = "deleted" => req[c].delset \subseteq DOMAIN table
       /\ table' # table =>
            /\ resp'.kind \in {"success_saved", "success_deleted"}
            /\ req[resp'.client].pc = "deleted"
            /\ req'[resp'.client].pc = "idle"
            /\ req[resp'.client].op = "save" =>
                 \A s \in req[resp'.client].time_slots,
                    l \in req[resp'.client].location_ids :
                    \E r \in DOMAIN table' :
                       /\ r.user_id = req[resp'.client].user_id
                       /\ r.date = req[resp'.client].date
                       /\ r.time_slot = s /\ r.location_id = l
       /\ \A c \in Clients :
            (req[c].pc # "idle" /\ req'[c].pc = "idle" /\ resp'.kind = "danger_error"
               /\ resp'.client = c)
            => table' = table /\ req[c].delset \subseteq DOMAIN table']_vars

\* C5 witness: a save whose DELETE had removed rows failed in commit() and
\* those rows are stored ("danger_error" is the save callback's failure).
C5_Witness ==
    /\ resp.kind = "danger_error" /\ resp.deleted > 0
    /\ \E u \in {1, 2}, d \in Dates :
          /\ u = ActingUserId(resp.client)
          /\ BagCardinality(StoredFor(table, u, d)) >= resp.deleted

\* C6: a save_recommendation for a selected date with no time slot or no
\* location selected returns the "Please select ..." warning and changes
\* no stored row.
C6_EmptySelectionRejected ==
    [][\A c \in SeqClients, S \in SlotInputs, L \in LocationInputs, g \in GuestInputs,
          fault \in SeqSaveFaults :
         (/\ sel_date[c] # NoDate
          /\ S = {} \/ L = {}
          /\ save_recommendation_whole(c, S, L, g, fault))
         => resp'.kind = "warning_select" /\ table' = table]_vars

\* C6 witness: the warning was returned to a user who has rows stored for
\* the selected date.
C6_Witness ==
    /\ resp.kind = "warning_select"
    /\ MatchingRows(ActingUserId(resp.client), sel_date[resp.client]) # {}

\* C7: a save_recommendation whose user does not resolve, or one of whose
\* locations is not in the locations table, changes no stored row and its
\* response is not the one a storage failure produces.
C7_BadReferenceIsValidation ==
    [][\A c \in SeqClients, S \in SlotInputs, L \in LocationInputs, g \in GuestInputs :
         (/\ sel_date[c] # NoDate /\ S # {} /\ L # {}
          /\ get_current_username(c) # ""
          /\ ActingUserId(c) = NoUserId \/ ~(L \subseteq LocationIds)
          /\ save_recommendation_whole(c, S, L, g, "none"))
         => table' = table /\ resp'.kind # "danger_error"]_vars

\* C7, the part the code keeps: such a save changes no stored row.
C7_BadReferenceChangesNothing ==
    [][\A c \in SeqClients, S \in SlotInputs, L \in LocationInputs, g \in GuestInputs :
         (/\ sel_date[c] # NoDate /\ S # {} /\ L # {}
          /\ get_current_username(c) # ""
          /\ ActingUserId(c) = NoUserId \/ ~(L \subseteq LocationIds)
          /\ save_recommendation_whole(c, S, L, g, "none"))
         => table' = table]_vars

\* C7 witness: a save naming a location that does not exist failed while
\* the user has rows stored for the date.
C7_Witness ==
    /\ resp.kind = "danger_error" /\ resp.detail = "IntegrityError:foreign_key"
    /\ MatchingRows(ActingUserId(resp.client), sel_date[resp.client]) # {}

\* Copies of row r in the bag tbl.
Copies(tbl, r) == IF r \in DOMAIN tbl THEN tbl[r] ELSE 0

\* C8: a save_recommendation issued while the id under edit names a row of
\* another user than the session's does not succeed and changes no stored
\* row.
C8_ForeignEditRejected ==
    [][\A c \in SeqClients, S \in EditSlotInputs, L \in EditLocationInputs,
          g \in GuestInputs :
         (/\ \E e \in edit_id[c] : e.user_id # ActingUserId(c)
          /\ save_recommendation_whole(c, S, L, g, "none"))
         => resp'.kind # "success_saved" /\ table' = table]_vars

\* C8 witness: a save returned success to a client whose id under edit
\* names a row of another user.
C8_Witness ==
    /\ resp.kind = "success_saved"
    /\ \E e \in edit_id[resp.client] : e.user_id # ActingUserId(resp.client)
    /\ MatchingRows(ActingUserId(resp.client), sel_date[resp.client]) # {}

\* C9: a step of save_recommendation or delete_recommendation changes the
\* stored copies only of rows whose user_id is the id of the session's
\* user; without a session, or with a session whose user does not resolve,
\* it changes no row.
C9_OnlyOwnRows ==
    [][\A c \in SeqClients :
         LET u == ActingUserId(c) IN
         /\ (get_current_username(c) = "" \/ u = NoUserId) => table' = table
         /\ \A r \in DOMAIN table \cup DOMAIN table' :
               Copies(table, r) # Copies(table', r) => r.user_id = u]_vars

\* C9 witness: rows of two users are stored and a mutating callback was
\* refused for a session whose user does not resolve.
C9_Witness ==
    /\ resp.kind = "danger_user_not_found"
    /\ \A u \in {1, 2} : \E r \in DOMAIN table : r.user_id = u

\* C10: when one of two overlapping save_recommendation requests for the
\* same (user_id, date) commits, the stored rows of (user_id, date) are
\* exactly the product of the committing request, never rows of both.
C10_LastCommitWins ==
    [][\A c \in Clients :
         (/\ req[c].pc = "deleted" /\ req[c].op = "save"
          /\ resp'.kind = "success_saved" /\ resp'.client = c
          /\ req'[c].pc = "idle")
         => StoredFor(table', req[c].user_id, req[c].date)
               = ProductBag(req[c].user_id, req[c].date, req[c].time_slots,
                            req[c].location_ids, req[c].num_guests)]_vars

\* C10 witness: the losing request of two was rejected by the unique
\* constraint.
C10_Witness ==
    /\ resp.kind = "danger_error" /\ resp.detail = "IntegrityError:unique"
    /\ \E u \in {1, 2}, d \in Dates : BagCardinality(StoredFor(table, u, d)) = 2

\* C11: when an INSERT of save_recommendation is rejected by the unique
\* constraint, the transaction is rolled back and the response is a
\* "concurrent modification" condition of its own, not the response a
\* storage error gets.
C11_ConflictReported ==
    [][\A c \in Clients :
         (/\ req[c].pc = "deleted" /\ req[c].op = "save"
          /\ UniqueViolation(NewRows(req[c].user_id, req[c].date, req[c].time_slots,
                                     req[c].location_ids, req[c].num_guests),
                             Without(table, req[c].delset))
          /\ req'[c].pc = "idle" /\ resp'.client = c)
         => table' = table /\ resp'.kind # "danger_error"]_vars

\* C11, the part the code keeps: the rejected save is rolled back.
C11_ConflictRolledBack ==
    [][\A c \in Clients :
         (/\ req[c].pc = "deleted" /\ req[c].op = "save"
          /\ UniqueViolation(NewRows(req[c].user_id, req[c].date, req[c].time_slots,
                                     req[c].location_ids, req[c].num_guests),
                             Without(table, req[c].delset))
          /\ req'[c].pc = "idle" /\ resp'.client = c)
         => table' = table /\ resp'.kind # "success_saved"]_vars

\* C11 witness: a save was rejected by the unique constraint, no request
\* is open and the rows of the request that won are stored.
C11_Witness ==
    /\ resp.kind = "danger_error" /\ resp.detail = "IntegrityError:unique"
    /\ \A c \in Clients : req[c].pc = "idle"
    /\ MatchingRows(ActingUserId(resp.client), sel_date[resp.client]) # {}

(* ---------------- requests on different (user_id, date) --------------- *)

\* Two browsers whose sessions and selected dates give their requests
\* different (user_id, date) keys; only save_recommendation is clicked.
InitDisjoint ==
    /\ table = EmptyBag
    /\ session \in [Clients -> LoggedIn]
    /\ session["c1"].username = "ann"
    /\ sel_date \in [Clients -> Dates]
    /\ sel_date["c1"] = 1
    /\ <<session["c1"].username, sel_date["c1"]>> # <<session["c2"].username, sel_date["c2"]>>
    /\ edit_id = [c \in Clients |-> {}]
    /\ req = [c \in Clients |-> IdleReq]
    /\ resp = NoResp
    /\ InitView
    /\ InitSite

NextDisjoint ==
    \/ \E c \in Clients, S \in EditSlotInputs, L \in ConcLocationInputs, g \in GuestInputs,
          fault \in BeginFaults : save_recommendation(c, S, L, g, fault)
    \/ \E c \in Clients, fault \in CommitFaults : save_commit(c, fault)

SpecDisjoint == InitDisjoint /\ [][NextDisjoint]_vars

\* C12: two save_recommendation requests on different (user_id, date)
\* never conflict: neither DELETE waits for the other, no INSERT is
\* rejected by the unique constraint, a commit is refused only by a storage
\* failure, and a successful commit leaves the committing request's product
\* for its key and every row of another key as it was, which is the state
\* the two requests give when run one after the other.
C12_DisjointKeysCommute ==
    [][/\ \A c \in Clients :
            /\ req[c].pc # "blocked"
            /\ req[c].pc = "deleted" =>
                 FlushErrors(req[c], Without(table, req[c].delset), "none") = {}
       /\ resp'.detail # "IntegrityError:unique"
       /\ \A c \in Clients :
            (/\ req[c].pc = "deleted" /\ req'[c].pc = "idle"
             /\ resp'.client = c /\ resp'.kind = "success_saved")
            => /\ StoredFor(table', req[c].user_id, req[c].date)
                    = ProductBag(req[c].user_id, req[c].date, req[c].time_slots,
                                 req[c].location_ids, req[c].num_guests)
               /\ \A r \in DOMAIN table \cup DOMAIN table' :
                     (r.user_id # req[c].user_id \/ r.date # req[c].date)
                     => Copies(table, r) = Copies(table', r)]_vars

\* C12 witness: one request committed its rows while the other, which had
\* deleted rows of its own key, was still open, and both keys have rows.
C12_Witness ==
    /\ resp.kind = "success_saved"
    /\ \E c \in Clients :
          /\ c # resp.client
          /\ req[c].pc = "deleted" /\ req[c].delset # {}
          /\ MatchingRows(ActingUserId(resp.client), sel_date[resp.client]) # {}

(* ------------------------- calendar summary --------------------------- *)

\* func.sum of f over the finite set S.
RECURSIVE Sum(_, _)
Sum(f, S) ==
    IF S = {} THEN 0
    ELSE LET x == CHOOSE y \in S : TRUE IN f[x] + Sum(f, S \ {x})

\* .filter(date >= start_date, date <= end_date)
InRange_exclusive_end(d, start_date, end_date) == start_date <= d /\ d < end_date

InRange(d, start_date, end_date) == start_date <= d /\ d <= end_date

\* The subquery of get_calendar_summary: the rows of the range grouped by
\* (date, user_id), each group with max(num_guests)
\* (SummaryGroups_per_row: one group per row, no grouping).
SummaryGroups_per_row(tbl, start_date, end_date) ==
    {[date |-> r.date, user_id |-> <<r.user_id, r.time_slot, r.location_id>>,
      guests |-> r.num_guests] :
        r \in {x \in DOMAIN tbl : InRange(x.date, start_date, end_date)}}

SummaryGroups(tbl, start_date, end_date) ==
    LET rows == {r \in DOMAIN tbl : InRange(r.date, start_date, end_date)}
        keys == {<<r.date, r.user_id>> : r \in rows}
    IN {[date |-> k[1], user_id |-> k[2],
         guests |-> Max({r.num_guests : r \in {x \in rows : x.date = k[1] /\ x.user_id = k[2]}})] :
           k \in keys}

\* get_calendar_summary over the committed rows tbl: per date of a group,
\* count(user_id) + coalesce(sum(guests), 0); {} when the query raises.
\* (get_calendar_summary_raising: the same without the except clause, the
\* caller seeing the error in place of a mapping.)
get_calendar_summary_raising(tbl, start_date, end_date, fault) ==
    LET groups == SummaryGroups(tbl, start_date, end_date) IN
    IF fault # "none" THEN [error |-> "OperationalError"]
    ELSE [d \in {g.date : g \in groups} |->
            LET of_d == {g \in groups : g.date = d} IN
            Cardinality(of_d) + Sum([g \in of_d |-> g.guests], of_d)]

get_calendar_summary(tbl, start_date, end_date, fault) ==
    IF fault # "none" THEN <<>>
    ELSE LET groups == SummaryGroups(tbl, start_date, end_date) IN
         [d \in {g.date : g \in groups} |->
            LET of_d == {g \in groups : g.date = d} IN
            Cardinality(of_d) + Sum([g \in of_d |-> g.guests], of_d)]

(* ------------------- one browser, two calendar days ------------------- *)

\* One browser as in SpecSeq, with two dates to click; every save selects
\* both time slots at one location.
FrameSlotInputs == {TIME_SLOTS}

NextFrame ==
    \/ \E c \in SeqClients, u \in UsernameInputs, p \in PasswordInputs : handle_login(c, u, p)
    \/ \E c \in SeqClients : handle_logout(c)
    \/ \E c \in SeqClients, d \in Dates : toggle_modal_day(c, d)
    \/ \E c \in SeqClients, S \in FrameSlotInputs, L \in EditLocationInputs, g \in GuestInputs,
          fault \in SeqSaveFaults : save_recommendation_whole(c, S, L, g, fault)
    \/ \E c \in SeqClients, fault \in SeqSaveFaults : delete_recommendation_whole(c, fault)

SpecFrame == Init /\ [][NextFrame]_vars

\* The users with a row on date d.
UsersOn(tbl, d) == {r.user_id : r \in {x \in DOMAIN tbl : x.date = d}}

\* The guests user u declared for date d (u has rows on d).
GuestsOf(tbl, u, d) ==
    CHOOSE g \in {r.num_guests : r \in {x \in DOMAIN tbl : x.user_id = u /\ x.date = d}} : TRUE

\* C13: a step of save_recommendation or delete_recommendation by user u
\* for date d leaves every stored row of another user or another date as
\* it was, and after a step that changed rows the summary of d is the sum,
\* over the users with rows on d, of 1 + that user's guests.
C13_FrameAndSummary ==
    [][\A c \in SeqClients :
         /\ \A r \in DOMAIN table \cup DOMAIN table' :
               (r.user_id # ActingUserId(c) \/ r.date # sel_date[c])
               => Copies(table, r) = Copies(table', r)
         /\ table' # table =>
               LET d == sel_date[c]
                   s == get_calendar_summary(table', d, d, "none")
                   on_d == UsersOn(table', d)
               IN IF on_d = {} THEN DOMAIN s = {}
                  ELSE /\ DOMAIN s = {d}
                       /\ s[d] = Sum([u \in on_d |-> 1 + GuestsOf(table', u, d)], on_d)]_vars

\* C13 witness: after a save both users have rows on one date, one of
\* them two rows with a guest, and the summary of the date is 3.
C13_Witness ==
    /\ resp.kind = "success_saved"
    /\ \E d \in Dates :
          /\ UsersOn(table, d) = {1, 2}
          /\ \E u \in {1, 2} :
                /\ Cardinality(MatchingRows(u, d)) = 2
                /\ GuestsOf(table, u, d) = 1
          /\ get_calendar_summary(table, d, d, "none")[d] = 3

\* C14: delete_recommendation by a resolved user u for a selected date d,
\* with no storage failure, removes every row of (u, d) and reports their
\* number; when (u, d) has no row it reports 0 and changes nothing.
C14_DeleteRemovesAndCounts ==
    [][\A c \in SeqClients :
         LET u == ActingUserId(c)
             d == sel_date[c]
         IN (/\ d # NoDate /\ u # NoUserId
             /\ delete_recommendation_whole(c, "none"))
            => /\ resp'.kind = "success_deleted"
               /\ \A r \in DOMAIN table' : ~(r.user_id = u /\ r.date = d)
               /\ resp'.deleted = BagCardinality(StoredFor(table, u, d))
               /\ MatchingRows(u, d) = {} => (resp'.deleted = 0 /\ table' = table)]_vars

\* C14 witness: a delete reported 4 removed rows, the user has no row left
\* and the other user's rows are stored.
C14_Witness ==
    /\ resp.kind = "success_deleted" /\ resp.deleted = 4
    /\ MatchingRows(ActingUserId(resp.client), sel_date[resp.client]) = {}
    /\ table # EmptyBag

(* ----------------- get_calendar_summary on any content ---------------- *)

\* Store contents for the summary: up to MaxRows rows of two users on three
\* consecutive dates, with no or MaxGuests guests, no two with one key;
\* user 1 in either time slot, user 2 in the first.
MaxRows == 3

SummaryDates == 1..3

SummaryRows ==
    {Row(1, 1, d, s, g) : d \in SummaryDates, s \in TIME_SLOTS, g \in {0, MaxGuests}}
    \cup {Row(2, 1, d, "07:00-08:00", g) : d \in SummaryDates, g \in {0, MaxGuests}}

RECURSIVE RowSets(_)
RowSets(n) ==
    IF n = 0 THEN {{}}
    ELSE LET smaller == RowSets(n - 1) IN
         smaller \cup {R \cup {r} : R \in smaller, r \in SummaryRows}

StoreContents ==
    {R \in RowSets(MaxRows) : \A r1 \in R, r2 \in R : UniqueKey(r1) = UniqueKey(r2) => r1 = r2}

InitSummary ==
    /\ table \in {SetToBag(R) : R \in StoreContents}
    /\ session = [c \in Clients |-> EmptySession]
    /\ sel_date = [c \in Clients |-> NoDate]
    /\ edit_id = [c \in Clients |-> {}]
    /\ req = [c \in Clients |-> IdleReq]
    /\ resp = NoResp
    /\ InitView
    /\ InitSite

\* A call of get_calendar_summary(start_date, end_date); the query may
\* raise.
summarize(start_date, end_date, fault) ==
    /\ result' = [fn |-> "get_calendar_summary", args |-> <<start_date, end_date>>,
                  fault |-> fault,
                  value |-> get_calendar_summary(table, start_date, end_date, fault)]
    /\ UNCHANGED <<table, session, sel_date, edit_id, req, resp, cal_start, rendered, pending>>
    /\ UNCHANGED site

NextSummary ==
    \E start_date \in SummaryDates, end_date \in SummaryDates, fault \in {"none", "statement"} :
        summarize(start_date, end_date, fault)

SpecSummary == InitSummary /\ [][NextSummary]_vars

\* C15: get_calendar_summary(start_date, end_date), when the query does
\* not fail, has exactly the dates of [start_date, end_date] with a stored
\* row as keys, each with the number of distinct users with a row on that
\* date plus the sum over those users of the largest num_guests among the
\* user's rows on that date.
C15_SummaryIsInterestCount ==
    (result.fn = "get_calendar_summary" /\ result.fault = "none") =>
        LET start_date == result.args[1]
            end_date == result.args[2]
            v == result.value
        IN /\ DOMAIN v = {d \in start_date..end_date : \E r \in DOMAIN table : r.date = d}
           /\ \A d \in DOMAIN v :
                 LET on_d == UsersOn(table, d) IN
                 v[d] = Cardinality(on_d)
                        + Sum([u \in on_d |->
                                  Max({r.num_guests :
                                         r \in {x \in DOMAIN table : x.user_id = u /\ x.date = d}})],
                              on_d)

\* C15 witness: a summary of the range [2, 3] over a store with a row on
\* date 1 and two rows of one user on date 3 with different guests, which
\* counts that user once with the larger number of guests.
C15_Witness ==
    /\ result.fn = "get_calendar_summary" /\ result.fault = "none"
    /\ result.args = <<2, 3>>
    /\ DOMAIN result.value = {3}
    /\ \E r \in DOMAIN table : r.date = 1
    /\ result.value[3] = 1 + MaxGuests
    /\ \E r1 \in DOMAIN table, r2 \in DOMAIN table :
          /\ r1.user_id = r2.user_id /\ r1.date = 3 /\ r2.date = 3
          /\ r1.num_guests # r2.num_guests

\* C16: when the query of get_calendar_summary raises, the function
\* returns the empty mapping and the stored rows are unchanged.
C16_SummaryFailsSoft ==
    [][\A start_date \in SummaryDates, end_date \in SummaryDates :
         summarize(start_date, end_date, "statement")
         => result'.value = <<>> /\ DOMAIN result'.value = {} /\ table' = table]_vars

\* C16 witness: a failed summary query over a store that has rows in the
\* queried range returned the empty mapping.
C16_Witness ==
    /\ result.fn = "get_calendar_summary" /\ result.fault = "statement"
    /\ result.value = <<>>
    /\ \E r \in DOMAIN table : InRange(r.date, result.args[1], result.args[2])

(* -------------------------------- dates ------------------------------- *)

\* A datetime.date is the number n of days after 2023-12-31: 1 is Monday
\* 2024-01-01.  The calendar below covers 2023 and 2024 (n in -364..366),
\* which holds a year change and a 29th of February.
EpochYear == 2024

IsLeap(y) == y % 4 = 0 /\ (y % 100 # 0 \/ y % 400 = 0)

DaysInMonth(y) ==
    <<31, IF IsLeap(y) THEN 29 ELSE 28, 31, 30, 31, 30, 31, 31, 30, 31, 30, 31>>

DaysInYear(y) == IF IsLeap(y) THEN 366 ELSE 365

\* Days of year y before its month m.
RECURSIVE DaysBeforeMonth(_, _)
DaysBeforeMonth(y, m) ==
    IF m = 1 THEN 0 ELSE DaysBeforeMonth(y, m - 1) + DaysInMonth(y)[m - 1]

\* date.isoformat(): the text YYYY-MM-DD, kept as <<year, month, day>>.
isoformat(n) ==
    LET y == IF n <= 0 THEN EpochYear - 1 ELSE EpochYear
        doy == IF n <= 0 THEN n + DaysInYear(EpochYear - 1) ELSE n
        m == CHOOSE k \in 1..12 :
                DaysBeforeMonth(y, k) < doy /\ doy <= DaysBeforeMonth(y, k) + DaysInMonth(y)[k]
    IN <<y, m, doy - DaysBeforeMonth(y, m)>>

\* date.fromisoformat()
fromisoformat(str) ==
    (IF str[1] = EpochYear THEN 0 ELSE 0 - DaysInYear(EpochYear - 1))
    + DaysBeforeMonth(str[1], str[2]) + str[3]

\* date.weekday(): Monday is 0.
weekday(n) == (n - 1) % 7

\* get_period_start(reference_date)
get_period_start_sunday(reference_date) == reference_date - (reference_date % 7)

get_period_start(reference_date) ==
    LET days_since_monday == weekday(reference_date) IN
    reference_date - days_since_monday

\* update_calendar, the stored start date after a trigger: the store's text
\* is parsed, moved by 14 days for prev / next, and written back as text.
advance_by_week(start_date_str, triggered_id) ==
    LET start_date == fromisoformat(start_date_str) IN
    isoformat(IF triggered_id = "prev-period-btn" THEN start_date - 7
              ELSE IF triggered_id = "next-period-btn" THEN start_date + 14
              ELSE start_date)

advance(start_date_str, triggered_id) ==
    LET start_date == fromisoformat(start_date_str) IN
    isoformat(IF triggered_id = "prev-period-btn" THEN start_date - 14
              ELSE IF triggered_id = "next-period-btn" THEN start_date + 14
              ELSE start_date)

\* Dates the date functions are called with.
MaxDay == 60

DateInputs == (0 - MaxDay)..MaxDay

InitDates ==
    /\ table = EmptyBag
    /\ session = [c \in Clients |-> EmptySession]
    /\ sel_date = [c \in Clients |-> NoDate]
    /\ edit_id = [c \in Clients |-> {}]
    /\ req = [c \in Clients |-> IdleReq]
    /\ resp = NoResp
    /\ InitView
    /\ InitSite

call_get_period_start(d) ==
    /\ result' = [fn |-> "get_period_start", args |-> <<d>>, fault |-> "none",
                  value |-> get_period_start(d)]
    /\ UNCHANGED <<table, session, sel_date, edit_id, req, resp, cal_start, rendered, pending>>
    /\ UNCHANGED site

call_advance(d, triggered_id) ==
    /\ result' = [fn |-> "advance", args |-> <<isoformat(d), triggered_id>>, fault |-> "none",
                  value |-> advance(isoformat(d), triggered_id)]
    /\ UNCHANGED <<table, session, sel_date, edit_id, req, resp, cal_start, rendered, pending>>
    /\ UNCHANGED site

NextDates ==
    \/ \E d \in DateInputs : call_get_period_start(d)
    \/ \E d \in DateInputs, t \in {"prev-period-btn", "next-period-btn"} : call_advance(d, t)

SpecDates == InitDates /\ [][NextDates]_vars

\* C18: for every date d, get_period_start(d) is a Monday (a whole number
\* of weeks away from Monday 2024-01-01) and
\* get_period_start(d) <= d < get_period_start(d) + 7.
C18_PeriodStartIsMonday ==
    result.fn = "get_period_start" =>
        LET d == result.args[1]
            s == result.value
        IN /\ \E k \in (0 - MaxDay)..MaxDay : s = fromisoformat(<<2024, 1, 1>>) + 7 * k
           /\ s <= d /\ d < s + 7

\* C18 witness: the period start of Thursday 2024-02-29 is Monday
\* 2024-02-26.
C18_Witness ==
    /\ result.fn = "get_period_start"
    /\ isoformat(result.args[1]) = <<2024, 2, 29>>
    /\ isoformat(result.value) = <<2024, 2, 26>>

\* C19: for every stored start date s, a next navigation followed by a
\* prev navigation, and a prev followed by a next, give s again.
C19_NavigationRoundTrip ==
    result.fn = "advance" =>
        LET s == result.args[1]
            back == IF result.args[2] = "next-period-btn" THEN "prev-period-btn"
                    ELSE "next-period-btn"
        IN /\ result.value # s
           /\ advance(result.value, back) = s

\* C19 witness: next from 2024-02-19 stored 2024-03-04, across the 29th
\* of February.
C19_Witness ==
    /\ result.fn = "advance"
    /\ result.args = <<(<<2024, 2, 19>>), "next-period-btn">>
    /\ result.value = <<2024, 3, 4>>

(* --------------------------- rendering callbacks ---------------------- *)

\* The last day of the window update_calendar shows
\* (WindowEnd_one_week: a window of one week).
WindowEnd_one_week(start_date) == start_date + 6

WindowEnd(start_date) == start_date + 13

\* create_calendar_grid: the interest count of each day of the window,
\* summaries.get(day_date, 0).
Grid(start_date, summaries) ==
    [d \in start_date..(start_date + 13) |->
        IF d \in DOMAIN summaries THEN summaries[d] ELSE 0]

\* load_user_entries: the rows of get_user_recommendations(user_id) grouped
\* by date, each date with its time slots, locations and guests.
UserEntries(tbl, u) ==
    [d \in {r.date : r \in {x \in DOMAIN tbl : x.user_id = u}} |->
        LET recs == {x \in DOMAIN tbl : x.user_id = u /\ x.date = d} IN
        [time_slots |-> {r.time_slot : r \in recs},
         location_ids |-> {r.location_id : r \in recs},
         guests |-> GuestsOf(tbl, u, d)]]

\* The callbacks a click on the save / delete button triggers: each has the
\* button's n_clicks as an Input.
SaveCallbacks == {"save_recommendation", "toggle_modal", "update_calendar", "load_user_entries"}

DeleteCallbacks == {"delete_recommendation", "toggle_modal", "update_calendar", "load_user_entries"}

\* A callback is dispatched once no callback still to run writes one of its
\* Inputs: update_calendar reads selected-date, an Output of toggle_modal;
\* load_user_entries reads calendar-start-date, an Output of update_calendar.
Ready(c, cb) ==
    /\ cb \in pending[c].todo
    /\ cb = "update_calendar" => "toggle_modal" \notin pending[c].todo
    /\ cb = "load_user_entries" => "update_calendar" \notin pending[c].todo

Done(c, cb) == [pending EXCEPT ![c].todo = @ \ {cb}]

\* Clicks of the navigation buttons are followed up to MaxNav periods away
\* from the week of 2024-01-01.
MaxNav == 1

\* The day the layout was built (date.today()).
TodayInputs == {4, 11}

InitRender ==
    /\ table = EmptyBag
    /\ session = [c \in Clients |->
                    IF c \in SeqClients THEN [authenticated |-> TRUE, username |-> "ann"]
                    ELSE EmptySession]
    /\ sel_date = [c \in Clients |-> NoDate]
    /\ edit_id = [c \in Clients |-> {}]
    /\ req = [c \in Clients |-> IdleReq]
    /\ resp = NoResp
    /\ \E today \in TodayInputs :
          cal_start = [c \in Clients |-> isoformat(get_period_start(today))]
    /\ rendered = [c \in Clients |-> NoRendered]
    /\ pending = [c \in Clients |-> NoClick]
    /\ result = NoResult
    /\ InitSite

\* A click on a day card: toggle_modal stores the date, which triggers
\* update_calendar.
click_day(c, d) ==
    /\ pending[c].todo = {}
    /\ sel_date' = [sel_date EXCEPT ![c] = d]
    /\ edit_id' = [edit_id EXCEPT ![c] = {}]
    /\ pending' = [pending EXCEPT ![c] = [NoClick EXCEPT !.click = "selected-date",
                                                          !.todo = {"update_calendar"}]]
    /\ UNCHANGED <<table, session, req, resp, cal_start, rendered, result>>
    /\ UNCHANGED site

\* A click on prev / next.
click_nav(c, triggered_id) ==
    /\ pending[c].todo = {}
    /\ LET start_date == fromisoformat(advance(cal_start[c], triggered_id)) IN
       /\ start_date >= 1 - 14 * MaxNav
       /\ start_date <= 8 + 14 * MaxNav
    /\ pending' = [pending EXCEPT ![c] = [NoClick EXCEPT !.click = triggered_id,
                                                          !.todo = {"update_calendar"}]]
    /\ UNCHANGED <<table, session, sel_date, edit_id, req, resp, cal_start, rendered, result>>
    /\ UNCHANGED site

\* A click on the save button of the modal, with the form's values.
click_save(c, S, L, g) ==
    /\ pending[c].todo = {}
    /\ sel_date[c] # NoDate
    /\ pending' = [pending EXCEPT ![c] =
                     [click |-> "save-recommendation-btn", todo |-> SaveCallbacks,
                      time_slots |-> S, location_ids |-> L, num_guests |-> g,
                      committed |-> FALSE]]
    /\ UNCHANGED <<table, session, sel_date, edit_id, req, resp, cal_start, rendered, result>>
    /\ UNCHANGED site

\* A click on the delete button of the modal.
click_delete(c) ==
    /\ pending[c].todo = {}
    /\ sel_date[c] # NoDate
    /\ pending' = [pending EXCEPT ![c] = [NoClick EXCEPT !.click = "delete-recommendation-btn",
                                                          !.todo = DeleteCallbacks]]
    /\ UNCHANGED <<table, session, sel_date, edit_id, req, resp, cal_start, rendered, result>>
    /\ UNCHANGED site

\* toggle_modal for a save or delete click: closes the modal, clears the id
\* under edit, leaves selected-date as it is.
run_toggle_modal(c) ==
    /\ Ready(c, "toggle_modal")
    /\ edit_id' = [edit_id EXCEPT ![c] = {}]
    /\ pending' = Done(c, "toggle_modal")
    /\ UNCHANGED <<table, session, sel_date, req, resp, cal_start, rendered, result>>
    /\ UNCHANGED site

\* save_recommendation for the click, from call to return.
run_save_recommendation(c, fault) ==
    /\ Ready(c, "save_recommendation")
    /\ LET e == SaveEntry(c, pending[c].time_slots, pending[c].location_ids,
                          pending[c].num_guests, fault)
       IN IF e.returns THEN Return(c, e)
          ELSE SaveFlush(c, e.req, AfterDeleteStmt(e.req.delset), fault)
    /\ pending' = [Done(c, "save_recommendation") EXCEPT
                     ![c].committed = (resp'.kind = "success_saved")]
    /\ UNCHANGED <<session, sel_date, edit_id, cal_start, rendered, result>>
    /\ UNCHANGED site

\* delete_recommendation for the click, from call to return.
run_delete_recommendation(c, fault) ==
    /\ Ready(c, "delete_recommendation")
    /\ LET e == DeleteEntry(c, fault)
       IN IF e.returns THEN Return(c, e)
          ELSE DeleteFlush(c, e.req, AfterDeleteStmt(e.req.delset), fault)
    /\ pending' = [Done(c, "delete_recommendation") EXCEPT
                     ![c].committed = (resp'.kind = "success_deleted")]
    /\ UNCHANGED <<session, sel_date, edit_id, cal_start, rendered, result>>
    /\ UNCHANGED site

\* update_calendar: the start date is moved for a prev / next trigger, the
\* summary of the window is queried and the grid rendered; the start date
\* is written back to the store.
run_update_calendar(c) ==
    /\ Ready(c, "update_calendar")
    /\ LET start_date_str == advance(cal_start[c], pending[c].click)
           start_date == fromisoformat(start_date_str)
           end_date == WindowEnd(start_date)
           summaries == get_calendar_summary(table, start_date, end_date, "none")
       IN /\ cal_start' = [cal_start EXCEPT ![c] = start_date_str]
          /\ rendered' = [rendered EXCEPT ![c].start = start_date, ![c].end = end_date,
                                          ![c].summaries = Grid(start_date, summaries)]
    /\ pending' = [pending EXCEPT ![c].todo = (@ \ {"update_calendar"}) \cup {"load_user_entries"}]
    /\ UNCHANGED <<table, session, sel_date, edit_id, req, resp, result>>
    /\ UNCHANGED site

\* load_user_entries: the entry list of the session's user is queried and
\* rendered.
run_load_user_entries(c) ==
    /\ Ready(c, "load_user_entries")
    /\ rendered' = [rendered EXCEPT ![c].entries = UserEntries(table, ActingUserId(c))]
    /\ pending' = Done(c, "load_user_entries")
    /\ UNCHANGED <<table, session, sel_date, edit_id, req, resp, cal_start, result>>
    /\ UNCHANGED site

RenderSlotInputs == {{"07:00-08:00"}, TIME_SLOTS}

NextRender ==
    \/ \E c \in SeqClients, d \in SeqDates : click_day(c, d)
    \/ \E c \in SeqClients, t \in {"prev-period-btn", "next-period-btn"} : click_nav(c, t)
    \/ \E c \in SeqClients, S \in RenderSlotInputs, L \in EditLocationInputs, g \in GuestInputs :
          click_save(c, S, L, g)
    \/ \E c \in SeqClients : click_delete(c)
    \/ \E c \in SeqClients : run_toggle_modal(c)
    \/ \E c \in SeqClients, fault \in SeqSaveFaults : run_save_recommendation(c, fault)
    \/ \E c \in SeqClients, fault \in SeqSaveFaults : run_delete_recommendation(c, fault)
    \/ \E c \in SeqClients : run_update_calendar(c)
    \/ \E c \in SeqClients : run_load_user_entries(c)

SpecRender == InitRender /\ [][NextRender]_vars

\* C17: once every callback of a save or delete click that committed a
\* mutation has run, the rendered grid and entry list are those of the
\* stored rows after the mutation.
C17_RenderAfterMutation ==
    \A c \in SeqClients :
       (/\ pending[c].todo = {} /\ pending[c].committed
        /\ pending[c].click \in {"save-recommendation-btn", "delete-recommendation-btn"})
       => /\ rendered[c].summaries
               = Grid(rendered[c].start,
                      get_calendar_summary(table, rendered[c].start, rendered[c].end, "none"))
          /\ rendered[c].entries = UserEntries(table, ActingUserId(c))

\* C17 witness: every callback of a save click that stored rows has run
\* and the grid shows the rows.
C17_Witness ==
    \E c \in SeqClients :
       /\ pending[c].todo = {} /\ pending[c].committed
       /\ pending[c].click = "save-recommendation-btn"
       /\ \E d \in DOMAIN rendered[c].summaries : rendered[c].summaries[d] > 0
       /\ rendered[c].entries = UserEntries(table, ActingUserId(c))

\* C20: the stored calendar start date is always a Monday, a rendered
\* window is the 14 days from its start, and only a prev or next trigger
\* changes the stored start date, by exactly 14 days.
C20_WindowInvariant ==
    [][\A c \in SeqClients :
         LET before == fromisoformat(cal_start[c])
             after == fromisoformat(cal_start'[c])
         IN /\ weekday(before) = 0 /\ weekday(after) = 0
            /\ rendered'[c] # NoRendered =>
                  /\ rendered'[c].end = rendered'[c].start + 13
                  /\ DOMAIN rendered'[c].summaries = rendered'[c].start..(rendered'[c].start + 13)
                  /\ rendered'[c].start = after
            /\ after # before =>
                  \/ pending[c].click = "prev-period-btn" /\ after = before - 14
                  \/ pending[c].click = "next-period-btn" /\ after = before + 14]_vars

\* C20 witness: after a next and a save the window shown is the two weeks
\* from Monday 2024-01-15.
C20_Witness ==
    \E c \in SeqClients :
       /\ cal_start[c] = <<2024, 1, 15>>
       /\ pending[c].click = "save-recommendation-btn" /\ pending[c].todo = {}
       /\ rendered[c].start = 15 /\ rendered[c].end = 28

(* ------------------------ upcoming sessions --------------------------- *)

\* The sets of at most n rows drawn from rows.
RECURSIVE RowSetsOf(_, _)
RowSetsOf(rows, n) ==
    IF n = 0 THEN {{}}
    ELSE LET smaller == RowSetsOf(rows, n - 1) IN
         smaller \cup {R \cup {r} : R \in smaller, r \in rows}

\* The days get_upcoming_potential_sessions is called on (date.today()).
UpcomingTodayInputs == {1, 2}

\* Store contents for the upcoming sessions: up to MaxRows rows of two
\* users on the days around the ends of the two-week range, no two with one
\* key; a user's rows of one date may differ in num_guests.
UpcomingDates == {0, 1, 15, 16}

UpcomingRows ==
    {Row(u, 1, d, "07:00-08:00", g) : u \in {1, 2}, d \in UpcomingDates, g \in {0, MaxGuests}}
    \cup {Row(u, 1, d, "08:00-09:00", MaxGuests) : u \in {1, 2}, d \in UpcomingDates}

UpcomingStores ==
    {R \in RowSetsOf(UpcomingRows, MaxRows) :
        \A r1 \in R, r2 \in R : UniqueKey(r1) = UniqueKey(r2) => r1 = r2}

InitUpcoming ==
    /\ table \in {SetToBag(R) : R \in UpcomingStores}
    /\ session = [c \in Clients |-> EmptySession]
    /\ sel_date = [c \in Clients |-> NoDate]
    /\ edit_id = [c \in Clients |-> {}]
    /\ req = [c \in Clients |-> IdleReq]
    /\ resp = NoResp
    /\ InitView
    /\ InitSite

\* A call of get_upcoming_potential_sessions() on the day today; the query
\* may raise.
call_get_upcoming_potential_sessions(today, fault) ==
    /\ result' = [fn |-> "get_upcoming_potential_sessions", args |-> <<today>>,
                  fault |-> fault,
                  value |-> get_upcoming_potential_sessions(table, users, today, fault)]
    /\ UNCHANGED <<table, session, sel_date, edit_id, req, resp, cal_start, rendered, pending>>
    /\ UNCHANGED site

NextUpcoming ==
    \E today \in UpcomingTodayInputs, fault \in {"none", "statement"} :
        call_get_upcoming_potential_sessions(today, fault)

SpecUpcoming == InitUpcoming /\ [][NextUpcoming]_vars

\* The username of the users row with id u.
UsernameOf(u) == (CHOOSE x \in users : x.id = u).username

\* C21: get_upcoming_potential_sessions(), when the query does not fail,
\* returns one element per date of [today, today + 14] with a stored row,
\* in ascending date order; the element of a date holds one (username,
\* guests) pair per user with a row on that date, in username order, guests
\* being the largest num_guests among that user's rows of the date.
C21_UpcomingByDate ==
    (result.fn = "get_upcoming_potential_sessions" /\ result.fault = "none") =>
       LET v == result.value
           today == result.args[1]
       IN /\ {v[i][1] : i \in 1..Len(v)}
               = {r.date : r \in {x \in DOMAIN table : today <= x.date /\ x.date <= today + 14}}
          /\ \A i \in 1..Len(v), j \in 1..Len(v) : i < j => v[i][1] < v[j][1]
          /\ \A i \in 1..Len(v) :
                LET d == v[i][1]
                    members == v[i][2]
                IN /\ {members[k][1] : k \in 1..Len(members)}
                        = {UsernameOf(u) : u \in UsersOn(table, d)}
                   /\ \A k \in 1..Len(members), l \in 1..Len(members) :
                         k < l => CollationRank(members[k][1]) < CollationRank(members[l][1])
                   /\ \A k \in 1..Len(members) : \A u \in UsersOn(table, d) :
                         UsernameOf(u) = members[k][1] =>
                            members[k][2] = Max({r.num_guests :
                                  r \in {x \in DOMAIN table : x.user_id = u /\ x.date = d}})

\* C21 witness: a call on day 1 returned the one date 15, the last of the
\* range, with ann before bob, ann with the larger of her two guest counts.
C21_Witness ==
    /\ result.fn = "get_upcoming_potential_sessions" /\ result.fault = "none"
    /\ result.args = <<1>>
    /\ result.value = <<<<15, <<<<"ann", MaxGuests>>, <<"bob", 0>>>>>>>>
    /\ \E r1 \in DOMAIN table, r2 \in DOMAIN table :
          /\ r1.user_id = 1 /\ r2.user_id = 1 /\ r1.date = 15 /\ r2.date = 15
          /\ r1.num_guests # r2.num_guests

(* ---------------------------- home page served ------------------------ *)

\* One logged-in browser saving and deleting entries on the play page and
\* opening the home page, on the day of the import or the day after.
HomeTodayInputs == {ImportDay, ImportDay + 1}

InitHome ==
    /\ table = EmptyBag
    /\ session = [c \in Clients |->
                    IF c \in SeqClients THEN [authenticated |-> TRUE, username |-> "ann"]
                    ELSE EmptySession]
    /\ sel_date = [c \in Clients |-> NoDate]
    /\ edit_id = [c \in Clients |-> {}]
    /\ req = [c \in Clients |-> IdleReq]
    /\ resp = NoResp
    /\ InitView
    /\ InitSite

\* A request for the path "/": page_container shows home.layout, the
\* component tree built when the module was imported.
serve_home(c, today) ==
    /\ result' = [fn |-> "home.layout", args |-> <<c, today>>, fault |-> "none",
                  value |-> home_layout]
    /\ UNCHANGED <<table, session, sel_date, edit_id, req, resp, cal_start, rendered, pending>>
    /\ UNCHANGED site

NextHome ==
    \/ \E c \in SeqClients, d \in Dates : toggle_modal_day(c, d)
    \/ \E c \in SeqClients, S \in EditSlotInputs, L \in EditLocationInputs, g \in GuestInputs,
          fault \in SeqSaveFaults : save_recommendation_whole(c, S, L, g, fault)
    \/ \E c \in SeqClients, fault \in SeqSaveFaults : delete_recommendation_whole(c, fault)
    \/ \E c \in SeqClients, today \in HomeTodayInputs : serve_home(c, today)

SpecHome == InitHome /\ [][NextHome]_vars

\* C22: the upcoming-sessions section of a home page that is served is the
\* one built from the rows stored at the time it is served.
C22_HomeSummaryFresh ==
    [][(result' # result /\ result'.fn = "home.layout") =>
          result'.value = build_upcoming_section(
                             get_upcoming_potential_sessions(table, users, result'.args[2], "none"))]_vars

\* C22 witness: the home page was served after a save that committed rows
\* of an upcoming date.
C22_Witness ==
    /\ result.fn = "home.layout"
    /\ resp.kind = "success_saved"
    /\ \E r \in DOMAIN table : r.date >= result.args[2] /\ r.date <= result.args[2] + 14

(* --------------------------- a user's entries ------------------------- *)

\* The order of the time slot labels as strings.
TimeSlotOrder == <<"07:00-08:00", "08:00-09:00">>

TimeSlotRank(s) == CHOOSE i \in 1..Len(TimeSlotOrder) : TimeSlotOrder[i] = s

\* .order_by(PlayRecommendation.date, PlayRecommendation.time_slot)
\* (EntryOrderKey_date_only: order_by(date) alone).
EntryOrderKey_date_only(r) == r.date

EntryOrderKey(r) == r.date * (Len(TimeSlotOrder) + 1) + TimeSlotRank(r.time_slot)

\* get_user_recommendations(user_id) over the committed rows tbl: the lists
\* the query can return, the rows of the user in ascending order of the
\* key, rows of one key in any order; the empty list when it raises.
get_user_recommendations(tbl, user_id, fault) ==
    IF fault # "none" THEN {<<>>}
    ELSE LET rows == {r \in DOMAIN tbl : r.user_id = user_id}
             n == Cardinality(rows)
         IN {q \in [1..n -> rows] :
                /\ \A i \in 1..n, j \in 1..n : i # j => q[i] # q[j]
                /\ \A i \in 1..n, j \in 1..n :
                      i < j => EntryOrderKey(q[i]) <= EntryOrderKey(q[j])}

\* Store contents for the entry lists: up to MaxRows rows of two users on
\* two dates, in either time slot at either location, no two with one key.
EntryRows ==
    {Row(u, l, d, s, 0) : u \in {1, 2}, l \in LocationIds, d \in Dates, s \in TIME_SLOTS}

EntryStores == RowSetsOf(EntryRows, MaxRows)

InitEntries ==
    /\ table \in {SetToBag(R) : R \in EntryStores}
    /\ session = [c \in Clients |-> EmptySession]
    /\ sel_date = [c \in Clients |-> NoDate]
    /\ edit_id = [c \in Clients |-> {}]
    /\ req = [c \in Clients |-> IdleReq]
    /\ resp = NoResp
    /\ InitView
    /\ InitSite

\* A call of get_user_recommendations(user_id); the query may raise.
call_get_user_recommendations(user_id, fault) ==
    /\ \E q \in get_user_recommendations(table, user_id, fault) :
          result' = [fn |-> "get_user_recommendations", args |-> <<user_id>>,
                     fault |-> fault, value |-> q]
    /\ UNCHANGED <<table, session, sel_date, edit_id, req, resp, cal_start, rendered, pending>>
    /\ UNCHANGED site

NextEntries ==
    \E user_id \in {1, 2, 3}, fault \in {"none", "statement"} :
        call_get_user_recommendations(user_id, fault)

SpecEntries == InitEntries /\ [][NextEntries]_vars

\* C23: get_user_recommendations(u), when the query does not fail, returns
\* the stored rows of user u, each once and no other row, in ascending
\* order of date and, within a date, of time slot.
C23_UserEntriesListed ==
    (result.fn = "get_user_recommendations" /\ result.fault = "none") =>
       LET v == result.value
           u == result.args[1]
           mine == {r \in DOMAIN table : r.user_id = u}
       IN /\ {v[i] : i \in 1..Len(v)} = mine
          /\ Len(v) = Cardinality(mine)
          /\ \A i \in 1..Len(v), j \in 1..Len(v) :
                i < j => \/ v[i].date < v[j].date
                         \/ /\ v[i].date = v[j].date
                            /\ TimeSlotRank(v[i].time_slot) <= TimeSlotRank(v[j].time_slot)

\* C23 witness: the list of user 1 holds the two time slots of one date in
\* order while a row of user 2 is stored.
C23_Witness ==
    /\ result.fn = "get_user_recommendations" /\ result.fault = "none"
    /\ result.args = <<1>>
    /\ Len(result.value) = 2
    /\ result.value[1].date = result.value[2].date
    /\ result.value[1].time_slot = "07:00-08:00" /\ result.value[2].time_slot = "08:00-09:00"
    /\ \E r \in DOMAIN table : r.user_id = 2

(* ------------------------- deleting a location ------------------------ *)

\* How a row of locations is deleted: through the ORM (session.delete of a
\* loaded Location) or by a DELETE statement on the table.
DeleteVia == {"orm", "sql"}

\* The rows of play_recommendations left after the locations row l is
\* deleted by a DELETE statement, under
\* ForeignKey("locations.id", ondelete="CASCADE").
OnDeleteLocation(tbl, l) == [r \in {x \in DOMAIN tbl : x.location_id # l} |-> tbl[r]]

\* A location row is deleted by an administrator of the database.  Through
\* the ORM, Location.recommendations (no cascade, no passive_deletes) first
\* sets location_id of the referencing rows to NULL, which nullable=False
\* rejects: the delete fails while a row references the location.  A DELETE
\* statement is carried out by the database, which applies ON DELETE
\* CASCADE.
delete_location(l, via) ==
    /\ l \in locations
    /\ \A o \in Clients : req[o].pc = "idle"
    /\ IF via = "orm" /\ \E r \in DOMAIN table : r.location_id = l
       THEN UNCHANGED <<table, locations>>
       ELSE /\ locations' = locations \ {l}
            /\ table' = OnDeleteLocation(table, l)
    /\ UNCHANGED <<session, sel_date, edit_id, req, resp>>
    /\ UNCHANGED view
    /\ UNCHANGED <<users, home_layout, login_alert>>

LocationsLocationInputs == {{1}, LocationIds}

NextLocations ==
    \/ \E c \in SeqClients, d \in Dates : toggle_modal_day(c, d)
    \/ \E c \in SeqClients, S \in FrameSlotInputs, L \in LocationsLocationInputs, g \in GuestInputs,
          fault \in SeqSaveFaults : save_recommendation_whole(c, S, L, g, fault)
    \/ \E c \in SeqClients, fault \in SeqSaveFaults : delete_recommendation_whole(c, fault)
    \/ \E l \in LocationIds, via \in DeleteVia : delete_location(l, via)

SpecLocations == InitHome /\ [][NextLocations]_vars

\* C24: a step that removes a row of locations removes no row of
\* play_recommendations.
C24_NoCascadeOnLocationDelete ==
    [][locations' # locations => table' = table]_vars

\* C24 witness: a location is gone and rows of the other location are
\* still stored.
C24_Witness ==
    /\ locations = {2}
    /\ \E r \in DOMAIN table : r.location_id = 2

(* ---------------------- requests not sent by the form ----------------- *)

\* A time slot value that is none of the labels of models.TIME_SLOTS.
BadTimeSlot == "23:00-24:00"

\* The State values of a save request are whatever the client posts to
\* the callback endpoint: the checklist and the min attribute of the number
\* input restrict the form, not the request.
CraftedSlotInputs == {{"07:00-08:00"}, {BadTimeSlot}, {"07:00-08:00", BadTimeSlot}}

CraftedGuestInputs == GuestInputs \cup {<<0>>, <<0 - 1>>}

NextCrafted ==
    \/ \E c \in SeqClients, d \in Dates : toggle_modal_day(c, d)
    \/ \E c \in SeqClients, S \in CraftedSlotInputs, L \in EditLocationInputs,
          g \in CraftedGuestInputs, fault \in SeqSaveFaults :
             save_recommendation_whole(c, S, L, g, fault)
    \/ \E c \in SeqClients, fault \in SeqSaveFaults : delete_recommendation_whole(c, fault)

SpecCrafted == InitHome /\ [][NextCrafted]_vars

\* C25: the time_slot of every stored row is one of the labels of
\* TIME_SLOTS.
C25_TimeSlotIsLabel ==
    \A r \in DOMAIN table : r.time_slot \in TIME_SLOTS

\* C26: the num_guests of every stored row is a non-negative integer.
C26_GuestsNonNegative ==
    \A r \in DOMAIN table : r.num_guests \in Nat

\* C26, the default: a successful save without a guest value (None or 0)
\* stores rows with num_guests 0 only, for the date saved.
C26_MissingGuestsStoresZero ==
    [][\A c \in SeqClients, S \in CraftedSlotInputs, L \in EditLocationInputs,
         g \in {<<>>, <<0>>}, fault \in SeqSaveFaults :
          (save_recommendation_whole(c, S, L, g, fault) /\ resp'.kind = "success_saved")
          => /\ StoredFor(table', ActingUserId(c), sel_date[c]) # EmptyBag
             /\ \A r \in DOMAIN StoredFor(table', ActingUserId(c), sel_date[c]) :
                   r.num_guests = 0]_vars

\* C26 witness: a save without a guest value replaced rows that had a
\* guest by rows with none.
C26_Witness ==
    /\ resp.kind = "success_saved" /\ resp.deleted > 0
    /\ \E r \in DOMAIN table : r.date = 1
    /\ \A r \in DOMAIN table : r.date = 1 => r.num_guests = 0
    /\ \E r \in DOMAIN table : r.date = 2 /\ r.num_guests = MaxGuests

(* ---------------------- registration, login, logout ------------------- *)

\* The alert a login, logout or registration callback returns to client c.
Alert(c, kind) == [client |-> c, kind |-> kind]

\* The unique index on users.username: an INSERT is rejected when a row,
\* active or not, has the username
\* (UsernameTaken_active_only: an index over the active rows only).
UsernameTaken_active_only(usrs, username) ==
    \E x \in usrs : x.username = username /\ x.is_active

UsernameTaken(usrs, username) == \E x \in usrs : x.username = username

\* The id the sequence of users.id gives the next row.
NextUserId(usrs) == Max({x.id : x \in usrs} \cup {0}) + 1

\* AuthManager.create_user: the users table after the INSERT and commit,
\* or the table as it was when the INSERT or the commit raises
\* SQLAlchemyError and the transaction is rolled back.
create_user(usrs, username, password, fault) ==
    IF fault # "none" \/ UsernameTaken(usrs, username) THEN usrs
    ELSE usrs \cup {[id |-> NextUserId(usrs), username |-> username,
                     password_hash |-> Hash(password), is_active |-> TRUE]}

\* app.handle_registration for a click: the checks in the order of the
\* code, then create_user.
handle_registration(c, username, password, password_confirm, fault) ==
    /\ LET kind ==
             IF username = "" \/ password = "" THEN "danger_required"
             ELSE IF Len(username) < 3 THEN "danger_username_short"
             ELSE IF Len(password) < 6 THEN "danger_password_short"
             ELSE IF password # password_confirm THEN "danger_mismatch"
             ELSE IF get_user_by_username(username) # {} THEN "danger_taken"
             ELSE IF create_user(users, username, password, fault) = users
                  THEN "danger_failed"
                  ELSE "success_registered"
       IN /\ login_alert' = Alert(c, kind)
          /\ users' = IF kind \in {"danger_failed", "success_registered"}
                      THEN create_user(users, username, password, fault)
                      ELSE users
    /\ UNCHANGED <<table, session, sel_date, edit_id, req, resp>>
    /\ UNCHANGED view
    /\ UNCHANGED <<locations, home_layout>>

\* The flask session of c after handle_login(n_clicks, username, password)
\* (SessionAfterLogin_unverified: login_user without verify_credentials).
SessionAfterLogin_unverified(c, username, password) ==
    IF username # "" /\ password # ""
    THEN [authenticated |-> TRUE, username |-> username]
    ELSE session[c]

SessionAfterLogin(c, username, password) ==
    IF username # "" /\ password # "" /\ verify_credentials(username, password)
    THEN [authenticated |-> TRUE, username |-> username]
    ELSE session[c]

\* app.handle_login for a click, with its alerts: login_user for verified
\* credentials, "Invalid username or password" for others, nothing for an
\* empty field.
handle_login_request(c, username, password) ==
    /\ session' = [session EXCEPT ![c] = SessionAfterLogin(c, username, password)]
    /\ login_alert' = Alert(c, IF username = "" \/ password = "" THEN "none"
                               ELSE IF verify_credentials(username, password)
                                    THEN "success_login"
                                    ELSE "danger_invalid")
    /\ UNCHANGED <<table, sel_date, edit_id, req, resp>>
    /\ UNCHANGED view
    /\ UNCHANGED <<users, locations, home_layout>>

\* app.handle_logout for a click: session.clear() and its alert.
handle_logout_request(c) ==
    /\ session' = [session EXCEPT ![c] = EmptySession]
    /\ login_alert' = Alert(c, "info_logged_out")
    /\ UNCHANGED <<table, sel_date, edit_id, req, resp>>
    /\ UNCHANGED view
    /\ UNCHANGED <<users, locations, home_layout>>

\* An administrator of the database disables a user: is_active = false.
\* The row stays.
deactivate_user(username) ==
    /\ \E x \in users : x.username = username /\ x.is_active
    /\ users' = {[x EXCEPT !.is_active = (x.username # username) /\ @] : x \in users}
    /\ UNCHANGED <<table, session, sel_date, edit_id, req, resp>>
    /\ UNCHANGED view
    /\ UNCHANGED <<locations, home_layout, login_alert>>

\* Values typed into the forms.
RegUsernameInputs == {"", "al", "ann", "admin", "cat"}

RegPasswordInputs == {"pw", "secret_c"}

LoginUsernameInputs == {"", "ann", "bob", "admin", "cat"}

LoginPasswordInputs == {"", "secret_a", "secret_c", "password123"}

NextAuth ==
    \/ \E c \in SeqClients, u \in RegUsernameInputs, p \in RegPasswordInputs,
          pc \in RegPasswordInputs, fault \in SeqSaveFaults :
             handle_registration(c, u, p, pc, fault)
    \/ \E c \in SeqClients, u \in LoginUsernameInputs, p \in LoginPasswordInputs :
          handle_login_request(c, u, p)
    \/ \E c \in SeqClients : handle_logout_request(c)
    \/ \E u \in LoginUsernameInputs : deactivate_user(u)

SpecAuth == Init /\ [][NextAuth]_vars

\* C27: no two rows of users share a username, and a registration attempt
\* with the username of an existing row, active or not, with a username
\* shorter than 3, a password shorter than 6 or a confirmation that
\* differs leaves the users table as it was.
C27_UsernameUnique ==
    [][/\ \A x \in users', y \in users' : x.username = y.username => x = y
       /\ \A c \in SeqClients, u \in RegUsernameInputs, p \in RegPasswordInputs,
            pc \in RegPasswordInputs, fault \in SeqSaveFaults :
             (/\ handle_registration(c, u, p, pc, fault)
              /\ \/ \E x \in users : x.username = u
                 \/ Len(u) < 3 \/ Len(p) < 6 \/ p # pc)
             => users' = users]_vars

\* C27 witness: a registration was refused by the database while the
\* disabled user cat, registered earlier, is still in the table.
C27_Witness ==
    /\ login_alert.kind = "danger_failed"
    /\ Cardinality(users) = 3
    /\ \E x \in users : x.username = "cat" /\ ~x.is_active

\* C28: verify_credentials is false for the username of a disabled user
\* with every password, and no login step establishes a session for a
\* disabled user.
C28_DisabledCannotAuthenticate ==
    [][/\ \A x \in users : ~x.is_active =>
             \A p \in LoginPasswordInputs : ~verify_credentials(x.username, p)
       /\ \A c \in SeqClients :
             (session'[c] # session[c] /\ session'[c].authenticated)
             => ~\E x \in users : x.username = session'[c].username /\ ~x.is_active]_vars

\* C28, without the fallback account: verify_credentials is false for the
\* username of a disabled user other than the ADMIN_USERNAME of the
\* environment, with every password.
C28_DisabledNonAdminRejected ==
    \A x \in users : (~x.is_active /\ x.username # "admin") =>
        \A p \in LoginPasswordInputs : ~verify_credentials(x.username, p)

\* C28 witness: ann is disabled and a login was answered "Invalid username
\* or password".
C28_Witness ==
    /\ \E x \in users : x.username = "ann" /\ ~x.is_active
    /\ login_alert.kind = "danger_invalid"
    /\ session["c1"] = EmptySession

\* C29: a login click with verified credentials makes that username the
\* current identity; a login click with an empty field or credentials that
\* are not verified leaves the session as it was; after a logout click the
\* current identity is None; and the session changes in no other step.
C29_IdentityFollowsLogin ==
    [][/\ \A c \in SeqClients, u \in LoginUsernameInputs, p \in LoginPasswordInputs :
             handle_login_request(c, u, p) =>
                IF u # "" /\ p # "" /\ verify_credentials(u, p)
                THEN get_current_username(c)' = u
                ELSE session' = session
       /\ \A c \in SeqClients :
             handle_logout_request(c) => get_current_username(c)' = ""
       /\ session' # session =>
             \/ \E c \in SeqClients : handle_logout_request(c)
             \/ \E c \in SeqClients, u \in LoginUsernameInputs, p \in LoginPasswordInputs :
                   /\ handle_login_request(c, u, p)
                   /\ verify_credentials(u, p)
                   /\ get_current_username(c)' = u]_vars

\* C29 witness: ann is still the current identity after a login attempt
\* in her session was answered "Invalid username or password".
C29_Witness ==
    /\ get_current_username("c1") = "ann"
    /\ login_alert = Alert("c1", "danger_invalid")

(* ------------------------- the form of the modal ---------------------- *)

\* toggle_modal, day-card branch: the time slots and locations of the
\* user's rows of the date, which pre-select the two checklists
\* (ExistingSelection_first_slot: one of the time slots only).
ExistingSelection_first_slot(existing) ==
    [time_slots |-> IF existing = {} THEN {}
                    ELSE {(CHOOSE r \in existing : TRUE).time_slot},
     location_ids |-> {r.location_id : r \in existing}]

ExistingSelection(existing) ==
    [time_slots |-> {r.time_slot : r \in existing},
     location_ids |-> {r.location_id : r \in existing}]

\* toggle_modal, day-card branch, with the values it writes to the form:
\* existing_guests is num_guests of the first row the query returns, 0
\* without rows or without a logged-in user.
open_modal(c, d) ==
    /\ pending[c].todo = {}
    /\ sel_date' = [sel_date EXCEPT ![c] = d]
    /\ edit_id' = [edit_id EXCEPT ![c] = {}]
    /\ LET existing == IF ActingUserId(c) = NoUserId THEN {}
                       ELSE MatchingRows(ActingUserId(c), d)
       IN \E existing_guests \in {r.num_guests : r \in existing}
                                 \cup (IF existing = {} THEN {0} ELSE {}) :
             pending' = [pending EXCEPT ![c] =
                           [click |-> "day-card", todo |-> {},
                            time_slots |-> ExistingSelection(existing).time_slots,
                            location_ids |-> ExistingSelection(existing).location_ids,
                            num_guests |-> <<existing_guests>>,
                            committed |-> FALSE]]
    /\ UNCHANGED <<table, session, req, resp, cal_start, rendered, result>>
    /\ UNCHANGED site

\* A click on the save button of the open modal with the State values S,
\* L, g: save_recommendation from call to return; the modal is closed.
SaveClick(c, S, L, g, fault) ==
    /\ LET e == SaveEntry(c, S, L, g, fault)
       IN IF e.returns THEN Return(c, e)
          ELSE SaveFlush(c, e.req, AfterDeleteStmt(e.req.delset), fault)
    /\ pending' = [pending EXCEPT ![c] =
                     [click |-> "save-recommendation-btn", todo |-> {},
                      time_slots |-> S, location_ids |-> L, num_guests |-> g,
                      committed |-> (resp'.kind = "success_saved")]]
    /\ UNCHANGED <<session, sel_date, edit_id, cal_start, rendered, result>>
    /\ UNCHANGED site

\* The save button is clicked with the form as the modal opened it.
save_form(c, fault) ==
    /\ pending[c].click = "day-card"
    /\ SaveClick(c, pending[c].time_slots, pending[c].location_ids,
                 pending[c].num_guests, fault)

\* The save button is clicked after the user changed the form.
save_edited(c, S, L, g, fault) ==
    /\ pending[c].click = "day-card"
    /\ SaveClick(c, S, L, g, fault)

\* The delete button of the open modal is clicked: delete_recommendation
\* from call to return; the modal is closed.
delete_form(c, fault) ==
    /\ pending[c].click = "day-card"
    /\ LET e == DeleteEntry(c, fault)
       IN IF e.returns THEN Return(c, e)
          ELSE DeleteFlush(c, e.req, AfterDeleteStmt(e.req.delset), fault)
    /\ pending' = [pending EXCEPT ![c] =
                     [NoClick EXCEPT !.click = "delete-recommendation-btn",
                                     !.committed = (resp'.kind = "success_deleted")]]
    /\ UNCHANGED <<session, sel_date, edit_id, cal_start, rendered, result>>
    /\ UNCHANGED site

NextForm ==
    \/ \E c \in SeqClients, d \in Dates : open_modal(c, d)
    \/ \E c \in SeqClients, fault \in SeqSaveFaults : save_form(c, fault)
    \/ \E c \in SeqClients, S \in EditSlotInputs, L \in LocationsLocationInputs,
          g \in GuestInputs, fault \in SeqSaveFaults : save_edited(c, S, L, g, fault)
    \/ \E c \in SeqClients, fault \in SeqSaveFaults : delete_form(c, fault)

SpecForm == InitHome /\ [][NextForm]_vars

\* C30: the (time slot, location) pairs stored for a user and date are
\* all the pairs of a stored time slot and a stored location of that user
\* and date, and a save of the form as the modal opened it leaves the rows
\* of the user and date as they were.
C30_ProductAndResave ==
    [][/\ \A u \in {x.id : x \in users}, d \in Dates :
             LET rows == DOMAIN StoredFor(table', u, d) IN
             {<<r.time_slot, r.location_id>> : r \in rows}
                = {r.time_slot : r \in rows} \X {r.location_id : r \in rows}
       /\ \A c \in SeqClients, fault \in SeqSaveFaults :
             save_form(c, fault) =>
                StoredFor(table', ActingUserId(c), sel_date[c])
                   = StoredFor(table, ActingUserId(c), sel_date[c])]_vars

\* C30 witness: the form pre-selected from four stored rows without guests
\* was saved as it was: four rows were deleted and the same four stored.
C30_Witness ==
    \E c \in SeqClients :
       /\ pending[c].click = "save-recommendation-btn" /\ pending[c].committed
       /\ pending[c].num_guests = <<0>>
       /\ pending[c].time_slots = TIME_SLOTS /\ pending[c].location_ids = LocationIds
       /\ resp.kind = "success_saved" /\ resp.deleted = 4
       /\ BagCardinality(StoredFor(table, ActingUserId(c), sel_date[c])) = 4

====
